---- MODULE Spec2Model ----
(***************************************************************************)
(* The buffered metrics delivery pipeline of the SDK (sdk/metrics_sdk.py): *)
(* MetricsBuffer (a list persisted as one JSON file), MetricsClient with   *)
(* its retrying transport calls, identity resolution and send_metrics.     *)
(* One client process runs at a time; it can be killed and started again.  *)
(* Beside it: the base Collector (sdk/collector.py), whose collect_and_send *)
(* calls send_metrics, and the command relay (sdk/command_relay.py), whose  *)
(* worker threads poll, execute and answer commands.                        *)
(***************************************************************************)
EXTENDS Integers, Sequences, FiniteSets, TLC

\* ------------------------------------------------------------------ bounds
\* config.BUFFER_SIZE is 1000; the model runs the same code with a small one.
BUFFER_SIZE == 2
\* Number of send_metrics calls over all process lifetimes (the clock's range).
MaxSends == 3

\* Number of worker threads start() creates in one process lifetime.
MaxWorkers == 2
\* poll_interval is 30 by default; the model sleeps the same loop for fewer
\* one-second ticks.
POLL_INTERVAL == 2
\* Number of batches the legacy MetricsAggregator makes (its clock's range).
MaxBatches == 4

\* --------------------------------------------------------------- constants
MAX_RETRIES == 3

None == "None"
SOURCE_NAME == "laptop"

\* ------------------------------------------------------------------ inputs
\* The measurements handed to send_metrics: dicts, a missing key is a field
\* the record does not have. A metadata mapping is a sequence of
\* <<key, value>> and a value is <<type, text of str(value)>>.
Measurements ==
    { [name |-> "cpu", value |-> 42, unit |-> "%",
       metadata |-> << <<"host", <<"int", "7">> >> >>],
      [name |-> "mem", value |-> 3],
      [name |-> "", value |-> 1],
      [value |-> 1] }

MetricNames == {"cpu", "mem"}

\* What one HTTP exchange can come to: a 2xx answer with a JSON body, a
\* refused connection, a timeout, a 4xx/5xx status, a 2xx answer whose body
\* is not JSON.
Outcomes == {"ok", "refused", "timeout", "status", "badjson"}

\* uuid.uuid4(): a value the program does not control.
Uuid4Values == {<<"uuid4", "r1">>, <<"uuid4", "r2">>}

\* uuid.uuid5(NAMESPACE_DNS, name): a function of the name.
Uuid5(name) == <<"uuid5", name>>

\* The id the server gives the metric type, source or unit of that name.
ServerId(name) == <<"srv", name>>

\* dict.get(key, default)
Get(d, key, default) == IF key \in DOMAIN d THEN d[key] ELSE default

\* A truth test that takes the empty string for a name.
TruthyStr_NotNone(v) == v # None

\* Python truthiness of a string or None, of an id or None, of a mapping.
TruthyStr(v) == v # None /\ v # ""
NoId == <<"None", "None">>
TruthyId(v) == v # NoId
TruthyMap(v) == v # <<>>

\* --------------------------------------------------------- the buffer file
\* The text of the file is a sequence of JSON tokens <<kind, payload>>.
LBRACKET == <<"[", <<>>>>
RBRACKET == <<"]", <<>>>>
COMMA == <<",", <<>>>>

\* A buffered dict as a JSON object: its members in insertion order.
EncodeObject(rec) ==
    << <<"metric_type_id", rec.metric_type_id>>,
       <<"source_id", rec.source_id>>,
       <<"value", rec.value>>,
       <<"recorded_at", rec.recorded_at>> >>
    \o (IF "metadata" \in DOMAIN rec
          THEN << <<"metadata", rec.metadata>> >> ELSE <<>>)

DecodeObject(members) ==
    LET base == [metric_type_id |-> members[1][2],
                 source_id |-> members[2][2],
                 value |-> members[3][2],
                 recorded_at |-> members[4][2]]
    IN IF Len(members) = 5
         THEN [metric_type_id |-> base.metric_type_id,
               source_id |-> base.source_id,
               value |-> base.value,
               recorded_at |-> base.recorded_at,
               metadata |-> members[5][2]]
         ELSE base

\* A Python int n in a list is held as [int |-> n], so that it can sit in a
\* sequence beside dicts. One list item as a JSON token and back.
EncodeItem(v) ==
    IF "int" \in DOMAIN v THEN <<"num", <<v.int>>>>
                          ELSE <<"{}", EncodeObject(v)>>

DecodeItem(token) ==
    IF token[1] = "num" THEN [int |-> token[2][1]]
                        ELSE DecodeObject(token[2])

RECURSIVE JsonItems(_)
JsonItems(buf) ==
    IF buf = <<>> THEN <<>>
    ELSE IF Len(buf) = 1 THEN << EncodeItem(buf[1]) >>
    ELSE << EncodeItem(buf[1]), COMMA >> \o JsonItems(Tail(buf))

\* json.dump(self.buffer, f): the whole text it writes.
JsonDump(buf) == <<LBRACKET>> \o JsonItems(buf) \o <<RBRACKET>>

\* Whether json.load takes the text: one JSON array of objects and numbers.
JsonValid(text) ==
    /\ Len(text) >= 2
    /\ text[1] = LBRACKET
    /\ text[Len(text)] = RBRACKET
    /\ LET inner == SubSeq(text, 2, Len(text) - 1)
       IN /\ (Len(inner) = 0 \/ Len(inner) % 2 = 1)
          /\ \A i \in 1..Len(inner) :
                IF i % 2 = 1 THEN inner[i][1] \in {"{}", "num"}
                             ELSE inner[i] = COMMA

\* json.load(f) of a valid text.
JsonLoad(text) ==
    LET inner == SubSeq(text, 2, Len(text) - 1)
    IN [i \in 1..((Len(inner) + 1) \div 2) |-> DecodeItem(inner[2 * i - 1])]

NoFile == [exists |-> FALSE, text |-> <<>>]
FileOf(text) == [exists |-> TRUE, text |-> text]

\* A _load_buffer that takes the list of the file last entry first.
LoadBuffer_Reversed(f) ==
    IF f.exists /\ JsonValid(f.text)
      THEN LET l == JsonLoad(f.text)
           IN [i \in 1..Len(l) |-> l[Len(l) + 1 - i]]
      ELSE <<>>

\* MetricsBuffer._load_buffer on a buffer that __init__ set to []: whatever
\* list json.load returns becomes the buffer.
LoadBuffer(f) ==
    IF f.exists /\ JsonValid(f.text) THEN JsonLoad(f.text) ELSE <<>>

\* What an interrupted write of a text leaves: the file as open() truncated
\* it, or the text short of its end.
TornTexts(text) == { SubSeq(text, 1, k) : k \in {0, Len(text) - 1} }

\* add() that refuses the new entry when the buffer is full.
BufferAdd_DropNewest(buf, metric) ==
    IF Len(buf) >= BUFFER_SIZE THEN buf ELSE Append(buf, metric)

\* add() that inserts at the front.
BufferAdd_Front(buf, metric) ==
    LET kept == IF Len(buf) >= BUFFER_SIZE THEN SubSeq(buf, 2, Len(buf)) ELSE buf
    IN <<metric>> \o kept

\* add() that evicts with pop() instead of pop(0).
BufferAdd_PopLast(buf, metric) ==
    LET kept == IF Len(buf) >= BUFFER_SIZE THEN SubSeq(buf, 1, Len(buf) - 1) ELSE buf
    IN Append(kept, metric)

\* add() without the eviction.
BufferAdd_NoEvict(buf, metric) == Append(buf, metric)

\* MetricsBuffer.add, the in-memory part.
\* An add() that appends the record twice.
BufferAdd_Twice(buf, metric) == Append(Append(buf, metric), metric)

BufferAdd(buf, metric) ==
    LET kept == IF Len(buf) >= BUFFER_SIZE THEN SubSeq(buf, 2, Len(buf)) ELSE buf
    IN Append(kept, metric)

\* MetricsBuffer.clear, the in-memory part.
BufferClear(buf) == <<>>

\* A save that leaves out the entry added last.
SaveText_DropLast(buf) ==
    JsonDump(IF buf = <<>> THEN buf ELSE SubSeq(buf, 1, Len(buf) - 1))

\* MetricsBuffer._save_buffer: the text json.dump(self.buffer, f) writes.
SaveText(buf) == JsonDump(buf)

\* A flush that posts the oldest entry only.
BulkMetrics_Oldest(buf) == SubSeq(buf, 1, 1)

\* send_metrics lines 576-577 and _send_metrics_bulk: the 'metrics' array of
\* the bulk request is the list get_all() returned, all of it.
BulkMetrics(buf) == buf

\* A flush that clears whatever the bulk call returned.
FlushClears_Always(bulk_ok) == TRUE

\* send_metrics line 578: the buffer is cleared if _send_metrics_bulk
\* returned True.
FlushClears(bulk_ok) == bulk_ok

\* --------------------------------------------------------------- transport
\* The exception one exchange raises ("" for none). response.json() on a body
\* that is not JSON raises a RequestException subclass in requests >= 2.27
\* and a plain ValueError before; parse says whether the caller parses.
Raised(out, parse) ==
    CASE out = "ok" -> {""}
      [] out = "refused" -> {"ConnectionError"}
      [] out = "timeout" -> {"Timeout"}
      [] out = "status" -> {"HTTPError"}
      [] out = "badjson" ->
            IF parse THEN {"InvalidJSONError", "ValueError"} ELSE {""}

\* An except clause that takes connection errors and timeouts only.
IsRequestException_Transient(exc) == exc \in {"ConnectionError", "Timeout"}

\* except requests.exceptions.RequestException
IsRequestException(exc) ==
    exc \in {"ConnectionError", "Timeout", "HTTPError", "InvalidJSONError"}

\* A retry predicate that takes a refused connection and not a timeout.
retry_if_refused_only(exc) == exc = "ConnectionError"

\* A retry predicate that takes every exception.
retry_if_any_error(exc) == TRUE

\* MetricsClient._retry_if_connection_error
retry_if_connection_error(exc) == exc \in {"ConnectionError", "Timeout"}

\* A stop condition that lets one attempt more through.
stop_max_attempt_late(n) == n > MAX_RETRIES

\* retrying: stop_max_attempt_number
stop_max_attempt(n) == n >= MAX_RETRIES

\* A retry loop without a stop condition.
ShouldRetry_Forever(exc, n) == exc # "" /\ retry_if_connection_error(exc)

\* retrying's Retrying.call after one attempt: go round again or not.
ShouldRetry(exc, n) ==
    exc # "" /\ retry_if_connection_error(exc) /\ ~stop_max_attempt(n)

\* ------------------------------------------------------------- resolution
\* MetricsClient._load_metric_types: the name -> id mapping after the call.
LoadMetricTypes(out, active) ==
    IF out = "ok" THEN [n \in active |-> ServerId(n)] ELSE << >>

\* MetricsClient._ensure_source with source_id unset: the id it stores.
ResolveSource(listOut, listed, createOut, u4) ==
    IF listOut = "ok" /\ listed THEN ServerId(SOURCE_NAME)
    ELSE IF listOut = "ok" /\ createOut = "ok" THEN ServerId(SOURCE_NAME)
    ELSE u4

\* An _ensure_source without the test of self.source_id.
EnsureSource_Always(sid, listOut, listed, createOut, u4) ==
    ResolveSource(listOut, listed, createOut, u4)

\* MetricsClient._ensure_source
EnsureSource(sid, listOut, listed, createOut, u4) ==
    IF TruthyId(sid) THEN sid ELSE ResolveSource(listOut, listed, createOut, u4)

\* The requests to /api/sources/ one _ensure_source call makes: none when
\* self.source_id is set, else the GET and, if the source is not listed, the
\* POST.
EnsureSourceRequests(sid, listOut, listed) ==
    IF TruthyId(sid) THEN 0
    ELSE IF listOut = "ok" /\ ~listed THEN 2
    ELSE 1

\* What _ensure_source can come to, over what the server answers: the id
\* and the number of requests.
EnsureSourceOutcomes(sid) ==
    { [id |-> EnsureSource(sid, listOut, listed, createOut, u4),
       requests |-> EnsureSourceRequests(sid, listOut, listed)] :
        listOut \in Outcomes, listed \in BOOLEAN, createOut \in Outcomes,
        u4 \in Uuid4Values }

\* The ids _ensure_source can come to, over what the server answers.
EnsureSourceResults(sid) ==
    { EnsureSource(sid, listOut, listed, createOut, u4) :
        listOut \in Outcomes, listed \in BOOLEAN, createOut \in Outcomes,
        u4 \in Uuid4Values }

\* The mappings _load_metric_types can come to.
LoadMetricTypesResults ==
    { LoadMetricTypes(out, active) :
        out \in Outcomes, active \in SUBSET MetricNames }

\* UnitManager.register_unit as send_metrics calls it, the except of
\* send_metrics (lines 606-609) included: [id, created], created saying that
\* the POST was issued. listExc and createExc are what the GET and the POST
\* raised; a "not found" is a RequestException like a failed GET.
RegisterUnit(symbol, listExc, listed, createExc, u4) ==
    IF listExc = "" /\ listed
      THEN [id |-> ServerId(symbol), created |-> FALSE]
    ELSE IF listExc # "" /\ ~IsRequestException(listExc)
      THEN [id |-> <<"uuid5", "unit-", symbol>>, created |-> FALSE]
    ELSE IF createExc = ""
      THEN [id |-> ServerId(symbol), created |-> TRUE]
    ELSE IF IsRequestException(createExc)
      THEN [id |-> u4, created |-> TRUE]
    ELSE [id |-> <<"uuid5", "unit-", symbol>>, created |-> TRUE]

\* The results register_unit can come to, over what the server answers.
RegisterUnitResults(symbol) ==
    UNION { { RegisterUnit(symbol, listExc, listed, createExc, u4) :
                listExc \in Raised(listOut, TRUE), listed \in BOOLEAN,
                createExc \in Raised(createOut, TRUE), u4 \in Uuid4Values } :
            listOut \in Outcomes, createOut \in Outcomes }

\* MetricsClient._ensure_metric_type, the except of send_metrics included:
\* [id, created]. A created type is never cached: _make_request returns the
\* parsed body and response.json() is then called on that dict.
EnsureMetricType(types, name, unit_id) ==
    IF name \in DOMAIN types
      THEN [id |-> types[name], created |-> FALSE]
      ELSE [id |-> Uuid5(name), created |-> TRUE]

\* str(value) of a metadata value.
Str(v) == v[2]

\* float(value): the same number.
Float(v) == v

\* The 'metadata' list of key/value dicts made from a mapping.
FormatMetadata(md) ==
    [i \in 1..Len(md) |-> [key |-> md[i][1], value |-> Str(md[i][2])]]

\* formatted_metric of send_metrics.
FormattedMetric(m, mtid, sid, now) ==
    LET base == [metric_type_id |-> mtid,
                 source_id |-> sid,
                 value |-> Float(Get(m, "value", 0)),
                 recorded_at |-> now]
        md == Get(m, "metadata", <<>>)
    IN IF TruthyMap(md)
         THEN [metric_type_id |-> mtid, source_id |-> sid,
               value |-> base.value, recorded_at |-> now,
               metadata |-> FormatMetadata(md)]
         ELSE base

\* The dict buffered by the outer except of send_metrics.
MinimalMetric(m, now) ==
    [metric_type_id |-> Uuid5(Get(m, "name", None)),
     source_id |-> Uuid5(SOURCE_NAME),
     value |-> Float(Get(m, "value", 0)),
     recorded_at |-> now,
     metadata |-> FormatMetadata(Get(m, "metadata", <<>>))]

\* The command names of the handler table, the functions a caller registers
\* and the threads of the relay.
CommandNames == {"ping", "shutdown_wsl", "custom"}
CustomHandlers == {"handler_a", "handler_b"}
WorkerIds == 1..MaxWorkers
NoThread == 0

\* The commands the server hands out and the lists a poll can answer with.
PolledCommands ==
    { [id |-> "c1", command |-> "custom"], [id |-> "c2", command |-> "ping"] }
PollResponses ==
    {<<>>} \cup { <<c>> : c \in PolledCommands }
           \cup { <<c, d>> : c, d \in PolledCommands }

\* CommandExecutor.__init__: the table of the built-in handlers; a name the
\* table does not have is held as None.
InitialHandlers ==
    [c \in CommandNames |->
        IF c = "ping" THEN "_handle_ping"
        ELSE IF c = "shutdown_wsl" THEN "_handle_shutdown_wsl"
        ELSE None]

\* A worker with no result in hand, a thread not yet created, the state
\* file.
NoResult == [raised |-> FALSE, how |-> None, status |-> None]
NoWorker == [pc |-> "unborn", queue |-> <<>>, result |-> NoResult, ticks |-> 0]
NoStateFile == [exists |-> FALSE]
StateFileOf(id) == [exists |-> TRUE, last_command_id |-> id]

\* CommandRelayClient._load_state: the id of a state file that is there and
\* parses, the value the constructor was given otherwise.
LoadState(f, default) ==
    IF f.exists /\ "last_command_id" \in DOMAIN f
      THEN f.last_command_id
      ELSE default

\* The state files a relay can find when it is constructed: none, the one an
\* earlier process wrote after the command c1, one that does not parse.
FoundStateFiles == {NoStateFile, StateFileOf("c1"), [exists |-> TRUE]}

\* ------------------------------------------------------------------- state
VARIABLES
    buffer,          \* MetricsBuffer.buffer
    file,            \* the buffer file
    metric_types,    \* MetricsClient.metric_types
    source_id,       \* MetricsClient.source_id
    pc,              \* where the client is
    op,              \* the public call in progress
    metrics_data,    \* the argument of send_metrics
    clock,           \* datetime.now(): the number of send_metrics calls so far
    metric_type_id,  \* local of send_metrics
    attempt_number,  \* retrying's attempt counter of the call in progress
    save_return,     \* where _save_buffer returns to
    ret,             \* the value the call returns
    bulk_calls,      \* transport calls of _send_metrics_bulk in this call
    send_calls,      \* transport calls of _send_metrics in this call
    transient,       \* how many of the send_calls raised ConnectionError/Timeout
    last_exc,        \* what the last single-item transport call raised
    bulk_result,     \* what _send_metrics_bulk returned in this call
    accepted,        \* the server answered 2xx to the single-item request
    entry_buffer,    \* the buffer when send_metrics was entered
    before_mutation, \* the buffer before the add or clear being saved
    persisted,       \* what the file held before that add or clear
    save_result,     \* how the last _save_buffer of this call ended
    creates,         \* metric-type create requests per name, this process
    returned,        \* the list a caller got from buffer.get_all()
    aliased,         \* that list is the object self.buffer
    source_requests, \* requests to /api/sources/ made by calls on the client
    bulk_request,    \* the last transport request of _send_metrics_bulk in
                     \* this call: the metrics it posted, what it raised
    resolution,      \* a list-then-create resolution: what the server
                     \* answered and what the resolution did
    delivered,       \* the entries of the bulk requests the server answered
                     \* 2xx to, over all process lifetimes
    collection,      \* the last Collector.collect_and_send: whether collect()
                     \* raised, whether that got out, the dict returned,
                     \* whether send_metrics was called
    aggregator,      \* the legacy MetricsAggregator: its buffer, the
                     \* buffer file, the batches it made, those the server
                     \* took, those clear() removed from the buffer
    command_handlers, \* CommandExecutor.command_handlers
    running,         \* CommandRelayClient.running
    thread,          \* CommandRelayClient.thread
    workers,         \* the poll_loop threads: where each is, the commands
                     \* of its poll still to process, the result in hand,
                     \* the ticks left to sleep
    last_command_id, \* CommandRelayClient.last_command_id
    state_file,      \* command_relay_state.json
    sent_results,    \* the results POSTed to /api/commands/result
    received,        \* the ids of the results the server answered 200 to
    main_pc          \* where the thread calling start() and stop() is

vars == <<buffer, file, metric_types, source_id, pc, op, metrics_data, clock,
          metric_type_id, attempt_number, save_return, ret, bulk_calls,
          send_calls, transient, last_exc, bulk_result, accepted, entry_buffer,
          before_mutation, persisted, save_result, creates, returned,
          aliased, source_requests, bulk_request, resolution, delivered,
          collection, aggregator,
          command_handlers, running, thread, workers, last_command_id,
          state_file, sent_results, received, main_pc>>

\* The variables of the metrics client and those of the command relay.
client_vars == <<buffer, file, metric_types, source_id, pc, op, metrics_data,
                 clock, metric_type_id, attempt_number, save_return, ret,
                 bulk_calls, send_calls, transient, last_exc, bulk_result,
                 accepted, entry_buffer, before_mutation, persisted,
                 save_result, creates, returned, aliased, source_requests,
                 bulk_request, resolution, delivered>>
relay_vars == <<command_handlers, running, thread, workers, last_command_id,
                state_file, sent_results, received, main_pc>>

NoMeasurement == [value |-> 0]
NoBulkRequest == [metrics |-> <<>>, exc |-> ""]
NoResolution == [of |-> None]
\* A MetricsAggregator on no buffer file, before its first collect_and_send.
NoAggregator == [buffer |-> <<>>, file |-> <<>>, clock |-> 0,
                 sent |-> {}, cleared |-> {}]

NoCollection == [raised |-> FALSE, propagated |-> FALSE,
                 result |-> [none |-> TRUE], sent |-> FALSE]

\* The locals and per-call observations of a client that is in no call.
Cleared ==
    /\ op' = None
    /\ metrics_data' = NoMeasurement
    /\ metric_type_id' = NoId
    /\ attempt_number' = 0
    /\ save_return' = None
    /\ ret' = None
    /\ bulk_calls' = 0
    /\ send_calls' = 0
    /\ transient' = 0
    /\ last_exc' = ""
    /\ bulk_result' = None
    /\ accepted' = FALSE
    /\ entry_buffer' = <<>>
    /\ before_mutation' = <<>>
    /\ persisted' = <<>>
    /\ save_result' = None
    /\ bulk_request' = NoBulkRequest

\* MetricsClient.__init__ on the file f: MetricsBuffer(buffer_file), then
\* _load_metric_types() and _ensure_source() coming to types and sid.
Construct(f, types, sid) ==
    /\ buffer' = LoadBuffer(f)
    /\ metric_types' = types
    /\ source_id' = sid
    /\ creates' = [n \in MetricNames |-> 0]
    /\ returned' = <<>>
    /\ aliased' = FALSE
    /\ source_requests' = 0
    /\ pc' = "idle"
    /\ Cleared

\* CommandRelayClient.__init__ where there is no state file.
InitRelay ==
    /\ command_handlers = InitialHandlers
    /\ running = FALSE
    /\ thread = NoThread
    /\ workers = [w \in WorkerIds |-> NoWorker]
    /\ last_command_id = None
    /\ state_file = NoStateFile
    /\ sent_results = {}
    /\ received = {}
    /\ main_pc = "ready"

Init ==
    /\ file = NoFile
    /\ buffer = LoadBuffer(NoFile)
    /\ metric_types \in LoadMetricTypesResults
    /\ source_id \in EnsureSourceResults(NoId)
    /\ creates = [n \in MetricNames |-> 0]
    /\ pc = "idle"
    /\ op = None
    /\ metrics_data = NoMeasurement
    /\ clock = 0
    /\ metric_type_id = NoId
    /\ attempt_number = 0
    /\ save_return = None
    /\ ret = None
    /\ bulk_calls = 0
    /\ send_calls = 0
    /\ transient = 0
    /\ last_exc = ""
    /\ bulk_result = None
    /\ accepted = FALSE
    /\ entry_buffer = <<>>
    /\ before_mutation = <<>>
    /\ persisted = <<>>
    /\ save_result = None
    /\ returned = <<>>
    /\ aliased = FALSE
    /\ source_requests = 0
    /\ bulk_request = NoBulkRequest
    /\ resolution = NoResolution
    /\ delivered = {}
    /\ collection = NoCollection
    /\ aggregator = NoAggregator
    /\ InitRelay

\* ----------------------------------------------------------------- actions
\* send_metrics is entered: lines 575-577.
send_metrics(m) ==
    /\ UNCHANGED <<collection, aggregator, relay_vars, delivered>>
    /\ pc = "idle"
    /\ clock < MaxSends
    /\ clock' = clock + 1
    /\ op' = "send_metrics"
    /\ metrics_data' = m
    /\ entry_buffer' = buffer
    /\ IF Len(buffer) > 0
         THEN pc' = "bulk" /\ attempt_number' = 1
         ELSE pc' = "name" /\ attempt_number' = 0
    /\ UNCHANGED <<bulk_request, resolution>>
    /\ UNCHANGED <<returned, aliased, source_requests>>
    /\ UNCHANGED <<buffer, file, metric_types, source_id, metric_type_id,
                   save_return, ret, bulk_calls, send_calls, transient,
                   last_exc, bulk_result, accepted, before_mutation,
                   persisted, save_result, creates>>

\* One transport call of _send_metrics_bulk with the whole buffer, then
\* retrying's decision; on True send_metrics calls buffer.clear(). The flush
\* is outside the try of send_metrics: an exception that the except of
\* _send_metrics_bulk does not take leaves send_metrics.
send_bulk_request(out) ==
    /\ UNCHANGED <<collection, aggregator, relay_vars>>
    /\ pc = "bulk"
    /\ bulk_calls' = bulk_calls + 1
    /\ \E exc \in Raised(out, FALSE) :
       /\ bulk_request' = [metrics |-> BulkMetrics(buffer), exc |-> exc]
       /\ delivered' = IF exc = ""
                         THEN delivered \cup { BulkMetrics(buffer)[i] :
                                                  i \in 1..Len(BulkMetrics(buffer)) }
                         ELSE delivered
       /\ IF ShouldRetry(exc, attempt_number)
            THEN /\ attempt_number' = attempt_number + 1
                 /\ UNCHANGED <<pc, ret, bulk_result, buffer, before_mutation,
                                persisted, save_return>>
          ELSE IF exc # "" /\ ~IsRequestException(exc)
            THEN /\ ret' = "raise"
                 /\ pc' = "return"
                 /\ attempt_number' = 0
                 /\ UNCHANGED <<bulk_result, buffer, before_mutation,
                                persisted, save_return>>
          ELSE /\ bulk_result' = IF exc = "" THEN "True" ELSE "False"
               /\ attempt_number' = 0
               /\ UNCHANGED ret
               /\ IF FlushClears(exc = "")
                    THEN /\ before_mutation' = buffer
                         /\ persisted' = LoadBuffer(file)
                         /\ buffer' = BufferClear(buffer)
                         /\ pc' = "save_open"
                         /\ save_return' = "name"
                    ELSE /\ pc' = "name"
                         /\ UNCHANGED <<buffer, before_mutation, persisted,
                                        save_return>>
    /\ returned' = (IF aliased THEN buffer' ELSE returned)
    /\ UNCHANGED resolution
    /\ UNCHANGED <<aliased, source_requests>>
    /\ UNCHANGED <<file, metric_types, source_id, op, metrics_data, clock,
                   metric_type_id, send_calls, transient, last_exc,
                   accepted, entry_buffer, save_result, creates>>

\* A _save_buffer that undoes the append or the clear when open() fails.
save_open_rollback(ok) ==
    /\ UNCHANGED <<collection, aggregator, relay_vars, delivered>>
    /\ pc = "save_open"
    /\ IF ok
         THEN /\ file' = FileOf(<<>>)
              /\ pc' = "save_dump"
              /\ UNCHANGED <<buffer, save_result, save_return, ret>>
         ELSE /\ save_result' = "IOError"
              /\ buffer' = before_mutation
              /\ pc' = save_return
              /\ save_return' = None
              /\ ret' = IF save_return = "return" THEN "False" ELSE ret
              /\ UNCHANGED file
    /\ returned' = (IF aliased THEN buffer' ELSE returned)
    /\ UNCHANGED <<bulk_request, resolution>>
    /\ UNCHANGED <<aliased, source_requests>>
    /\ UNCHANGED <<metric_types, source_id, op, metrics_data, clock,
                   metric_type_id, attempt_number, bulk_calls, send_calls,
                   transient, last_exc, bulk_result, accepted, entry_buffer,
                   before_mutation, persisted, creates>>

\* _save_buffer: open(self.buffer_file, 'w') truncates the file or raises
\* IOError, which _save_buffer logs.
save_open(ok) ==
    /\ UNCHANGED <<collection, aggregator, relay_vars, delivered>>
    /\ pc = "save_open"
    /\ IF ok
         THEN /\ file' = FileOf(<<>>)
              /\ pc' = "save_dump"
              /\ UNCHANGED <<save_result, save_return, ret>>
         ELSE /\ save_result' = "IOError"
              /\ pc' = save_return
              /\ save_return' = None
              /\ ret' = IF save_return = "return" THEN "False" ELSE ret
              /\ UNCHANGED file
    /\ UNCHANGED <<bulk_request, resolution>>
    /\ UNCHANGED <<returned, aliased, source_requests>>
    /\ UNCHANGED <<buffer, metric_types, source_id, op, metrics_data, clock,
                   metric_type_id, attempt_number, bulk_calls, send_calls,
                   transient, last_exc, bulk_result, accepted, entry_buffer,
                   before_mutation, persisted, creates>>

\* _save_buffer: json.dump writes the text and the file is closed, or the
\* write raises IOError part way.
save_dump(text) ==
    /\ UNCHANGED <<collection, aggregator, relay_vars, delivered>>
    /\ pc = "save_dump"
    /\ file' = FileOf(text)
    /\ save_result' = IF text = SaveText(buffer) THEN "ok" ELSE "IOError"
    /\ pc' = save_return
    /\ save_return' = None
    /\ ret' = IF save_return = "return" THEN "False" ELSE ret
    /\ UNCHANGED <<bulk_request, resolution>>
    /\ UNCHANGED <<returned, aliased, source_requests>>
    /\ UNCHANGED <<buffer, metric_types, source_id, op, metrics_data, clock,
                   metric_type_id, attempt_number, bulk_calls, send_calls,
                   transient, last_exc, bulk_result, accepted, entry_buffer,
                   before_mutation, persisted, creates>>

\* Lines 583-586: the name check.
check_name ==
    /\ UNCHANGED <<collection, aggregator, relay_vars, delivered>>
    /\ pc = "name"
    /\ IF TruthyStr(Get(metrics_data, "name", None))
         THEN pc' = "resolve" /\ UNCHANGED ret
         ELSE pc' = "return" /\ ret' = "False"
    /\ UNCHANGED <<bulk_request, resolution>>
    /\ UNCHANGED <<returned, aliased, source_requests>>
    /\ UNCHANGED <<buffer, file, metric_types, source_id, op, metrics_data,
                   clock, metric_type_id, attempt_number, save_return,
                   bulk_calls, send_calls, transient, last_exc, bulk_result,
                   accepted, entry_buffer, before_mutation, persisted,
                   save_result, creates>>

\* A resolution that gives the call up, returning False, when the metric
\* type could not be resolved.
resolve_aborting ==
    /\ UNCHANGED <<collection, aggregator, relay_vars, delivered>>
    /\ pc = "resolve"
    /\ LET name == metrics_data.name
           symbol == Get(metrics_data, "unit", None)
       IN \E unit \in (IF TruthyStr(symbol) THEN RegisterUnitResults(symbol)
                                             ELSE {[id |-> NoId, created |-> FALSE]}) :
             LET mt == EnsureMetricType(metric_types, name, unit.id)
             IN /\ metric_type_id' = mt.id
                /\ creates' = IF mt.created
                                THEN [creates EXCEPT ![name] = @ + 1]
                                ELSE creates
                /\ pc' = IF mt.created THEN "return" ELSE "send"
                /\ ret' = IF mt.created THEN "False" ELSE ret
                /\ attempt_number' = IF mt.created THEN 0 ELSE 1
                /\ \E src \in EnsureSourceOutcomes(source_id) :
                      /\ source_id' = src.id
                      /\ source_requests' = source_requests + src.requests
    /\ UNCHANGED <<bulk_request, resolution>>
    /\ UNCHANGED <<returned, aliased>>
    /\ UNCHANGED <<buffer, file, metric_types, op, metrics_data, clock,
                   save_return, bulk_calls, send_calls, transient,
                   last_exc, bulk_result, accepted, entry_buffer,
                   before_mutation, persisted, save_result>>

\* Lines 589-628: unit, metric type and source ids, each with its fallback.
resolve ==
    /\ UNCHANGED <<collection, aggregator, relay_vars, delivered>>
    /\ pc = "resolve"
    /\ LET name == metrics_data.name
           symbol == Get(metrics_data, "unit", None)
       IN \E unit \in (IF TruthyStr(symbol) THEN RegisterUnitResults(symbol)
                                             ELSE {[id |-> NoId, created |-> FALSE]}) :
             LET mt == EnsureMetricType(metric_types, name, unit.id)
             IN /\ metric_type_id' = mt.id
                /\ creates' = IF mt.created
                                THEN [creates EXCEPT ![name] = @ + 1]
                                ELSE creates
                /\ \E src \in EnsureSourceOutcomes(source_id) :
                      /\ source_id' = src.id
                      /\ source_requests' = source_requests + src.requests
    /\ pc' = "send"
    /\ attempt_number' = 1
    /\ UNCHANGED <<bulk_request, resolution>>
    /\ UNCHANGED <<returned, aliased>>
    /\ UNCHANGED <<buffer, file, metric_types, op, metrics_data, clock,
                   save_return, ret, bulk_calls, send_calls, transient,
                   last_exc, bulk_result, accepted, entry_buffer,
                   before_mutation, persisted, save_result>>

\* One transport call of _send_metrics, then retrying's decision; on False,
\* or on an exception _send_metrics lets through, send_metrics calls
\* buffer.add().
send_request(out) ==
    /\ UNCHANGED <<collection, aggregator, relay_vars, delivered>>
    /\ pc = "send"
    /\ send_calls' = send_calls + 1
    /\ accepted' = (accepted \/ out \in {"ok", "badjson"})
    /\ \E exc \in Raised(out, TRUE) :
          /\ last_exc' = exc
          /\ transient' = transient + (IF exc \in {"ConnectionError", "Timeout"} THEN 1 ELSE 0)
          /\ IF ShouldRetry(exc, attempt_number)
               THEN /\ attempt_number' = attempt_number + 1
                    /\ UNCHANGED <<pc, ret, buffer, before_mutation, persisted,
                                   save_return>>
             ELSE IF exc = ""
               THEN /\ ret' = "True"
                    /\ pc' = "return"
                    /\ attempt_number' = 0
                    /\ UNCHANGED <<buffer, before_mutation, persisted,
                                   save_return>>
             ELSE /\ before_mutation' = buffer
                  /\ persisted' = LoadBuffer(file)
                  /\ buffer' = BufferAdd(buffer,
                        IF IsRequestException(exc)
                          THEN FormattedMetric(metrics_data, metric_type_id,
                                               source_id, clock)
                          ELSE MinimalMetric(metrics_data, clock))
                  /\ pc' = "save_open"
                  /\ save_return' = "return"
                  /\ attempt_number' = 0
                  /\ UNCHANGED ret
    /\ returned' = (IF aliased THEN buffer' ELSE returned)
    /\ UNCHANGED <<bulk_request, resolution>>
    /\ UNCHANGED <<aliased, source_requests>>
    /\ UNCHANGED <<file, metric_types, source_id, op, metrics_data, clock,
                   metric_type_id, bulk_calls, bulk_result, entry_buffer,
                   save_result, creates>>

\* A health_check that empties the buffer when the server answers 200.
health_check_clearing(out) ==
    /\ UNCHANGED <<collection, aggregator, relay_vars, delivered>>
    /\ pc = "idle"
    /\ op' = "health_check"
    /\ LET status_200 == out \in {"ok", "badjson"}
       IN /\ ret' = IF status_200 THEN "True" ELSE "False"
          /\ \E src \in (IF status_200 THEN EnsureSourceOutcomes(source_id)
                                        ELSE {[id |-> source_id, requests |-> 0]}) :
                /\ source_id' = src.id
                /\ source_requests' = source_requests + src.requests
    /\ buffer' = (IF out \in {"ok", "badjson"} THEN <<>> ELSE buffer)
    /\ pc' = "return"
    /\ UNCHANGED <<bulk_request, resolution>>
    /\ UNCHANGED <<returned, aliased>>
    /\ UNCHANGED <<file, metric_types, metrics_data, clock,
                   metric_type_id, attempt_number, save_return, bulk_calls,
                   send_calls, transient, last_exc, bulk_result, accepted,
                   entry_buffer, before_mutation, persisted, save_result,
                   creates>>

\* health_check: one GET, whose body is not read, then _ensure_source() if
\* the status is 200.
health_check(out) ==
    /\ UNCHANGED <<collection, aggregator, relay_vars, delivered>>
    /\ pc = "idle"
    /\ op' = "health_check"
    /\ LET status_200 == out \in {"ok", "badjson"}
       IN /\ ret' = IF status_200 THEN "True" ELSE "False"
          /\ \E src \in (IF status_200 THEN EnsureSourceOutcomes(source_id)
                                        ELSE {[id |-> source_id, requests |-> 0]}) :
                /\ source_id' = src.id
                /\ source_requests' = source_requests + src.requests
    /\ pc' = "return"
    /\ UNCHANGED <<bulk_request, resolution>>
    /\ UNCHANGED <<returned, aliased>>
    /\ UNCHANGED <<buffer, file, metric_types, metrics_data, clock,
                   metric_type_id, attempt_number, save_return, bulk_calls,
                   send_calls, transient, last_exc, bulk_result, accepted,
                   entry_buffer, before_mutation, persisted, save_result,
                   creates>>

\* MetricsBuffer.get_all: return self.buffer, the list object itself.
get_all ==
    /\ UNCHANGED <<collection, aggregator, relay_vars, delivered>>
    /\ pc = "idle"
    /\ op' = "get_all"
    /\ returned' = buffer
    /\ aliased' = TRUE
    /\ pc' = "return"
    /\ UNCHANGED <<bulk_request, resolution>>
    /\ UNCHANGED <<buffer, file, metric_types, source_id, metrics_data, clock,
                   metric_type_id, attempt_number, save_return, ret,
                   bulk_calls, send_calls, transient, last_exc, bulk_result,
                   accepted, entry_buffer, before_mutation, persisted,
                   save_result, creates, source_requests>>

\* The caller of get_all() removes the last item of the list it was given;
\* when that list is self.buffer the buffer loses the item.
caller_pop ==
    /\ UNCHANGED <<collection, aggregator, relay_vars, delivered>>
    /\ pc = "idle"
    /\ returned # <<>>
    /\ returned' = SubSeq(returned, 1, Len(returned) - 1)
    /\ buffer' = (IF aliased THEN returned' ELSE buffer)
    /\ UNCHANGED <<bulk_request, resolution>>
    /\ UNCHANGED <<file, metric_types, source_id, pc, op, metrics_data, clock,
                   metric_type_id, attempt_number, save_return, ret,
                   bulk_calls, send_calls, transient, last_exc, bulk_result,
                   accepted, entry_buffer, before_mutation, persisted,
                   save_result, creates, aliased, source_requests>>

\* UnitManager.register_unit called for a symbol: the GET of the units, which
\* holds a unit of that symbol (entry "match") or none, and the POST if it
\* comes to one. The id is the one send_metrics goes on with.
register_unit(symbol, listOut, entry, createOut, u4) ==
    /\ UNCHANGED <<collection, aggregator, relay_vars, delivered>>
    /\ pc = "idle"
    /\ \E listExc \in Raised(listOut, TRUE), createExc \in Raised(createOut, TRUE) :
          LET unit == RegisterUnit(symbol, listExc, entry = "match", createExc, u4)
          IN resolution' = [of |-> "unit", name |-> symbol, list |-> listExc,
                            entry |-> entry, created |-> unit.created,
                            id |-> unit.id]
    /\ UNCHANGED <<buffer, file, metric_types, source_id, pc, op, metrics_data,
                   clock, metric_type_id, attempt_number, save_return, ret,
                   bulk_calls, send_calls, transient, last_exc, bulk_result,
                   accepted, entry_buffer, before_mutation, persisted,
                   save_result, creates, returned, aliased, source_requests,
                   bulk_request>>

\* MetricsClient.__init__ with its _ensure_source(): the GET of the sources,
\* which holds an active source of the client's name (entry "match"), an
\* inactive one or none, and the POST if it comes to one.
init_client(types, listOut, entry, createOut, u4) ==
    /\ UNCHANGED <<collection, aggregator, relay_vars, delivered>>
    /\ pc = "idle"
    /\ LET sid == EnsureSource(NoId, listOut, entry = "match", createOut, u4)
           requests == EnsureSourceRequests(NoId, listOut, entry = "match")
       IN /\ Construct(file, types, sid)
          /\ resolution' = [of |-> "source", name |-> SOURCE_NAME,
                            list |-> IF listOut = "ok" THEN "" ELSE listOut,
                            entry |-> entry, created |-> requests = 2,
                            id |-> sid]
    /\ UNCHANGED <<file, clock>>

\* The call returns to its caller.
Return ==
    /\ UNCHANGED <<collection, aggregator, relay_vars, delivered>>
    /\ pc = "return"
    /\ pc' = "idle"
    /\ Cleared
    /\ UNCHANGED resolution
    /\ UNCHANGED <<returned, aliased, source_requests>>
    /\ UNCHANGED <<buffer, file, metric_types, source_id, clock, creates>>

\* The process is killed and started again. A kill while json.dump is
\* writing leaves the part of the text written so far.
Restart(types, sid) ==
    /\ UNCHANGED <<collection, aggregator, relay_vars, delivered>>
    /\ \E f \in (IF pc = "save_dump"
                   THEN { FileOf(t) : t \in TornTexts(SaveText(buffer)) }
                   ELSE {file}) :
          /\ file' = f
          /\ Construct(f, types, sid)
    /\ UNCHANGED <<clock, resolution>>

\* -------------------------------------------------------------- collector
\* What collect() of a collector comes to: an Exception with its message, or
\* the dict it returns, which can itself have an 'error' key.
CollectOutcomes ==
    { [raises |-> TRUE, message |-> "boom"],
      [raises |-> TRUE, message |-> ""],
      [raises |-> FALSE, value |-> [percent |-> 3]],
      [raises |-> FALSE, value |-> [error |-> "no battery"]] }

\* A safe_collect without its except clause.
SafeCollect_Propagating(out) == out

\* Collector.safe_collect: the dict of collect(), or {'error': str(e)}.
SafeCollect(out) ==
    IF out.raises
      THEN [raises |-> FALSE, value |-> [error |-> out.message]]
      ELSE out

\* format_metrics of a collector of the "mem" measurement.
FormatMetrics(raw) == [name |-> "mem", value |-> Get(raw, "percent", 0)]

\* Collector.collect_and_send up to its call of metrics_sdk.send_metrics,
\* which is default_client.send_metrics: the client goes on with that call
\* and collect_and_send returns the dict when the call has returned.
collect_and_send(out, dry_run, importable) ==
    /\ pc = "idle"
    /\ LET safe == SafeCollect(out)
           failed == safe.raises \/ "error" \in DOMAIN safe.value
           sends == ~failed /\ ~dry_run /\ importable
       IN /\ collection' = [raised |-> out.raises,
                            propagated |-> safe.raises,
                            result |-> IF safe.raises THEN [none |-> TRUE]
                                                      ELSE safe.value,
                            sent |-> sends]
          /\ IF sends
               THEN /\ clock < MaxSends
                    /\ clock' = clock + 1
                    /\ op' = "send_metrics"
                    /\ metrics_data' = FormatMetrics(safe.value)
                    /\ entry_buffer' = buffer
                    /\ IF Len(buffer) > 0
                         THEN pc' = "bulk" /\ attempt_number' = 1
                         ELSE pc' = "name" /\ attempt_number' = 0
               ELSE UNCHANGED <<clock, op, metrics_data, entry_buffer, pc,
                                attempt_number>>
    /\ UNCHANGED <<aggregator, relay_vars>>
    /\ UNCHANGED <<bulk_request, resolution, delivered>>
    /\ UNCHANGED <<returned, aliased, source_requests>>
    /\ UNCHANGED <<buffer, file, metric_types, source_id, metric_type_id,
                   save_return, ret, bulk_calls, send_calls, transient,
                   last_exc, bulk_result, accepted, before_mutation,
                   persisted, save_result, creates>>

\* ---------------------------------------------------------- command relay
\* CommandRelayClient.register_command_handler.
RegisterCommandHandler(handlers, command, handler) ==
    [handlers EXCEPT ![command] = handler]

\* How a call of the handler can end: _handle_ping returns its dict; a
\* registered function returns a result, raises, or returns an object
\* json.dumps does not take.
HandlerOutcomes(handler) ==
    IF handler = "_handle_ping" THEN {"return"}
    ELSE {"return", "raise", "unserialisable"}

\* An execute_command that lets the exception of the handler through.
ExecuteCommand_Propagating(handlers, command, outcome) ==
    IF handlers[command] = None
      THEN [raised |-> FALSE, how |-> "unknown", status |-> "error"]
    ELSE IF outcome = "raise"
      THEN [raised |-> TRUE, how |-> "raised", status |-> None]
    ELSE [raised |-> FALSE, how |-> outcome, status |-> "success"]

\* CommandExecutor.execute_command: the result dict.
ExecuteCommand(handlers, command, outcome) ==
    IF handlers[command] = None
      THEN [raised |-> FALSE, how |-> "unknown", status |-> "error"]
    ELSE IF outcome = "raise"
      THEN [raised |-> FALSE, how |-> "raised", status |-> "error"]
    ELSE [raised |-> FALSE, how |-> outcome, status |-> "success"]

\* A _send_result that posts nothing.
SentResults_NotPosted(sent, id, status) == sent

\* The POSTs of results made so far, one more made by _send_result.
SentResults(sent, id, status) == sent \cup {[id |-> id, status |-> status]}


\* The threads start() has created that have not left poll_loop.
LiveWorkers == { w \in WorkerIds : workers[w].pc \notin {"unborn", "exited"} }

\* The calls a worker can be inside for longer than the join of stop() waits.
BlockingCalls == {"poll", "execute", "send_result"}

\* CommandRelayClient.start.
start ==
    /\ main_pc = "ready"
    /\ IF running
         THEN UNCHANGED <<running, thread, workers>>
         ELSE \E w \in WorkerIds :
                 /\ workers[w].pc = "unborn"
                 /\ \A v \in WorkerIds : v < w => workers[v].pc # "unborn"
                 /\ running' = TRUE
                 /\ thread' = w
                 /\ workers' = [workers EXCEPT ![w].pc = "while"]
    /\ UNCHANGED <<command_handlers, last_command_id, state_file,
                   sent_results, received, main_pc>>
    /\ UNCHANGED <<client_vars, collection, aggregator>>

\* CommandRelayClient.stop up to its thread.join(timeout=5).
stop ==
    /\ main_pc = "ready"
    /\ IF running
         THEN /\ running' = FALSE
              /\ IF thread # NoThread
                   THEN main_pc' = "join"
                   ELSE UNCHANGED main_pc
         ELSE UNCHANGED <<running, main_pc>>
    /\ UNCHANGED <<command_handlers, thread, workers, last_command_id,
                   state_file, sent_results, received>>
    /\ UNCHANGED <<client_vars, collection, aggregator>>

\* thread.join(timeout=5) returns, the worker having left poll_loop or being
\* inside a call that outlasts the five seconds, and stop() drops the thread.
join ==
    /\ main_pc = "join"
    /\ workers[thread].pc \in BlockingCalls \cup {"exited"}
    /\ thread' = NoThread
    /\ main_pc' = "ready"
    /\ UNCHANGED <<command_handlers, running, workers, last_command_id,
                   state_file, sent_results, received>>
    /\ UNCHANGED <<client_vars, collection, aggregator>>

\* CommandRelayClient.register_command_handler.
register_command_handler(command, handler) ==
    /\ main_pc = "ready"
    /\ command_handlers' = RegisterCommandHandler(command_handlers, command, handler)
    /\ UNCHANGED <<running, thread, workers, last_command_id, state_file,
                   sent_results, received, main_pc>>
    /\ UNCHANGED <<client_vars, collection, aggregator>>

\* poll_loop: while self.running.
loop_check(w) ==
    /\ workers[w].pc = "while"
    /\ workers' = [workers EXCEPT ![w].pc = IF running THEN "poll" ELSE "exited"]
    /\ UNCHANGED <<command_handlers, running, thread, last_command_id,
                   state_file, sent_results, received, main_pc>>
    /\ UNCHANGED <<client_vars, collection, aggregator>>

\* _poll_commands: the GET of the pending commands. A status other than 200,
\* an empty list and an exception end the poll; poll_loop goes to sleep.
poll_commands(w, out, commands) ==
    /\ workers[w].pc = "poll"
    /\ workers' = [workers EXCEPT ![w] =
          IF out = "ok" /\ commands # <<>>
            THEN [@ EXCEPT !.pc = "execute", !.queue = commands]
            ELSE [@ EXCEPT !.pc = "sleep", !.ticks = POLL_INTERVAL]]
    /\ UNCHANGED <<command_handlers, running, thread, last_command_id,
                   state_file, sent_results, received, main_pc>>
    /\ UNCHANGED <<client_vars, collection, aggregator>>

\* The head of the for loop of _poll_commands: the loop is over, or the
\* command is the one last processed and is skipped, or execute_command is
\* called for it. An exception it let through would end the poll at the
\* except of line 234.
execute(w, outcome) ==
    /\ workers[w].pc = "execute"
    /\ LET queue == workers[w].queue
       IN IF queue = <<>>
            THEN workers' = [workers EXCEPT ![w].pc = "sleep",
                                            ![w].ticks = POLL_INTERVAL]
          ELSE IF TruthyStr(last_command_id) /\ Head(queue).id = last_command_id
            THEN workers' = [workers EXCEPT ![w].queue = Tail(queue)]
          ELSE /\ outcome \in HandlerOutcomes(command_handlers[Head(queue).command])
               /\ LET result == ExecuteCommand(command_handlers,
                                               Head(queue).command, outcome)
                  IN workers' = [workers EXCEPT ![w] =
                        IF result.raised
                          THEN [@ EXCEPT !.pc = "sleep", !.queue = <<>>,
                                         !.result = result,
                                         !.ticks = POLL_INTERVAL]
                          ELSE [@ EXCEPT !.pc = "send_result",
                                         !.result = result]]
    /\ UNCHANGED <<command_handlers, running, thread, last_command_id,
                   state_file, sent_results, received, main_pc>>
    /\ UNCHANGED <<client_vars, collection, aggregator>>

\* _send_result: the POST of the result, whose RequestException is logged.
\* A result json.dumps does not take raises TypeError before any request is
\* made, and the except of line 234 ends the poll.
send_result(w, out) ==
    /\ workers[w].pc = "send_result"
    /\ IF workers[w].result.how = "unserialisable"
         THEN /\ workers' = [workers EXCEPT ![w] =
                    [@ EXCEPT !.pc = "sleep", !.queue = <<>>,
                              !.ticks = POLL_INTERVAL]]
              /\ UNCHANGED <<sent_results, received>>
         ELSE /\ sent_results' = SentResults(sent_results,
                                             Head(workers[w].queue).id,
                                             workers[w].result.status)
              /\ received' = IF out = "ok"
                                THEN received \cup {Head(workers[w].queue).id}
                                ELSE received
              /\ workers' = [workers EXCEPT ![w].pc = "set_last"]
    /\ UNCHANGED <<command_handlers, running, thread, last_command_id,
                   state_file, main_pc>>
    /\ UNCHANGED <<client_vars, collection, aggregator>>

\* self.last_command_id = command_id
set_last(w) ==
    /\ workers[w].pc = "set_last"
    /\ last_command_id' = Head(workers[w].queue).id
    /\ workers' = [workers EXCEPT ![w].pc = "save_state"]
    /\ UNCHANGED <<command_handlers, running, thread, state_file,
                   sent_results, received, main_pc>>
    /\ UNCHANGED <<client_vars, collection, aggregator>>

\* _save_state: the state file is written, or open() raises IOError, which
\* is logged; the for loop goes to the next command.
save_state(w, ok) ==
    /\ workers[w].pc = "save_state"
    /\ state_file' = IF ok THEN StateFileOf(last_command_id) ELSE state_file
    /\ workers' = [workers EXCEPT ![w] =
          [@ EXCEPT !.pc = "execute", !.queue = Tail(@), !.result = NoResult]]
    /\ UNCHANGED <<command_handlers, running, thread, last_command_id,
                   sent_results, received, main_pc>>
    /\ UNCHANGED <<client_vars, collection, aggregator>>

\* One round of the for loop that sleeps out the poll interval: the range is
\* used up, or self.running is false and the loop breaks, or time.sleep(1).
sleep_tick(w) ==
    /\ workers[w].pc = "sleep"
    /\ workers' = [workers EXCEPT ![w] =
          IF @.ticks = 0 \/ ~running
            THEN [@ EXCEPT !.pc = "while", !.ticks = 0]
            ELSE [@ EXCEPT !.ticks = @ - 1]]
    /\ UNCHANGED <<command_handlers, running, thread, last_command_id,
                   state_file, sent_results, received, main_pc>>
    /\ UNCHANGED <<client_vars, collection, aggregator>>

\* One process lifetime with a disk that takes every write.
Next ==
    \/ \E m \in Measurements : send_metrics(m)
    \/ \E out \in Outcomes : send_bulk_request(out)
    \/ save_open(TRUE)
    \/ save_dump(SaveText(buffer))
    \/ check_name
    \/ resolve
    \/ \E out \in Outcomes : send_request(out)
    \/ \E out \in Outcomes : health_check(out)
    \/ Return

Spec == Init /\ [][Next]_vars

\* Process lifetimes one after the other, with writes that can fail and
\* kills at any point, for the measurements of one collector and a server
\* that answers or refuses.
DiskMeasurements == { m \in Measurements : Get(m, "name", None) = "cpu" }
DiskOutcomes == {"ok", "refused"}

NextDisk ==
    \/ \E m \in DiskMeasurements : send_metrics(m)
    \/ \E out \in DiskOutcomes : send_bulk_request(out)
    \/ \E ok \in BOOLEAN : save_open(ok)
    \/ \E t \in TornTexts(SaveText(buffer)) \cup {SaveText(buffer)} : save_dump(t)
    \/ check_name
    \/ resolve
    \/ \E out \in DiskOutcomes : send_request(out)
    \/ Return
    \/ \E types \in { LoadMetricTypes(out, MetricNames) : out \in DiskOutcomes },
          sid \in EnsureSourceResults(NoId) :
          Restart(types, sid)

SpecDisk == Init /\ [][NextDisk]_vars

\* A process started on a buffer file it finds: none, an empty one, a text cut
\* short, an array of a number, the array an earlier process saved.
FoundFiles ==
    { NoFile,
      FileOf(<<>>),
      FileOf(<<LBRACKET>>),
      FileOf(<<LBRACKET, <<"num", <<7>>>>, RBRACKET>>),
      FileOf(JsonDump(<< MinimalMetric([name |-> "cpu", value |-> 42], 0) >>)) }

InitLoad ==
    /\ file \in FoundFiles
    /\ buffer = LoadBuffer(file)
    /\ metric_types \in LoadMetricTypesResults
    /\ source_id \in EnsureSourceResults(NoId)
    /\ creates = [n \in MetricNames |-> 0]
    /\ pc = "idle"
    /\ op = None
    /\ metrics_data = NoMeasurement
    /\ clock = 0
    /\ metric_type_id = NoId
    /\ attempt_number = 0
    /\ save_return = None
    /\ ret = None
    /\ bulk_calls = 0
    /\ send_calls = 0
    /\ transient = 0
    /\ last_exc = ""
    /\ bulk_result = None
    /\ accepted = FALSE
    /\ entry_buffer = <<>>
    /\ before_mutation = <<>>
    /\ persisted = <<>>
    /\ save_result = None
    /\ returned = <<>>
    /\ aliased = FALSE
    /\ source_requests = 0
    /\ bulk_request = NoBulkRequest
    /\ resolution = NoResolution
    /\ delivered = {}
    /\ collection = NoCollection
    /\ aggregator = NoAggregator
    /\ InitRelay

NextLoad ==
    \/ \E m \in DiskMeasurements : send_metrics(m)
    \/ \E out \in DiskOutcomes : send_bulk_request(out)
    \/ save_open(TRUE)
    \/ save_dump(SaveText(buffer))
    \/ check_name
    \/ resolve
    \/ \E out \in DiskOutcomes : send_request(out)
    \/ Return

SpecLoad == InitLoad /\ [][NextLoad]_vars

\* One process lifetime in which a call that has a step to take takes it:
\* every transport request returns or times out, every write returns.
SpecLive == Init /\ [][Next]_vars /\ WF_vars(Next)

\* The resolutions of a unit and of the source over every answer of the
\* server and every listing.
NextResolve ==
    \/ \E listOut \in Outcomes, entry \in {"none", "match"},
          createOut \in Outcomes, u4 \in Uuid4Values :
          register_unit("%", listOut, entry, createOut, u4)
    \/ \E types \in LoadMetricTypesResults, listOut \in Outcomes,
          entry \in {"none", "match", "inactive"}, createOut \in Outcomes,
          u4 \in Uuid4Values :
          init_client(types, listOut, entry, createOut, u4)

SpecResolve == Init /\ [][NextResolve]_vars

\* One process lifetime with every answer of the server and writes that can
\* fail, for a measurement with all its fields and one without a name.
FaultMeasurements == { m \in Measurements : Get(m, "name", "cpu") = "cpu" }

NextFaults ==
    \/ \E m \in FaultMeasurements : send_metrics(m)
    \/ \E out \in Outcomes : send_bulk_request(out)
    \/ \E ok \in BOOLEAN : save_open(ok)
    \/ \E t \in TornTexts(SaveText(buffer)) \cup {SaveText(buffer)} : save_dump(t)
    \/ check_name
    \/ resolve
    \/ \E out \in Outcomes : send_request(out)
    \/ Return

SpecFaults == Init /\ [][NextFaults]_vars

\* One process lifetime whose owner also reads the buffer with get_all() and
\* works on the list it got.
NextAlias ==
    \/ \E m \in DiskMeasurements : send_metrics(m)
    \/ \E out \in DiskOutcomes : send_bulk_request(out)
    \/ save_open(TRUE)
    \/ save_dump(SaveText(buffer))
    \/ check_name
    \/ resolve
    \/ \E out \in DiskOutcomes : send_request(out)
    \/ get_all
    \/ caller_pop
    \/ Return

SpecAlias == Init /\ [][NextAlias]_vars

\* A collector that is run again and again, with every outcome of collect(),
\* beside a server that answers or refuses.
NextCollect ==
    \/ \E out \in CollectOutcomes, dry_run \in BOOLEAN, importable \in BOOLEAN :
          collect_and_send(out, dry_run, importable)
    \/ \E out \in DiskOutcomes : send_bulk_request(out)
    \/ save_open(TRUE)
    \/ save_dump(SaveText(buffer))
    \/ check_name
    \/ resolve
    \/ \E out \in DiskOutcomes : send_request(out)
    \/ Return

SpecCollect == Init /\ [][NextCollect]_vars

\* A relay that is started and left running: every answer to its polls,
\* every way a handler ends, registrations of handlers at any time.
NextRelay ==
    \/ start
    \/ \E command \in {"ping", "custom"}, handler \in CustomHandlers :
          register_command_handler(command, handler)
    \/ \E w \in WorkerIds : loop_check(w)
    \/ \E w \in WorkerIds, out \in DiskOutcomes, commands \in PollResponses :
          poll_commands(w, out, commands)
    \/ \E w \in WorkerIds, outcome \in {"return", "raise", "unserialisable"} :
          execute(w, outcome)
    \/ \E w \in WorkerIds, out \in DiskOutcomes : send_result(w, out)
    \/ \E w \in WorkerIds : set_last(w)
    \/ \E w \in WorkerIds, ok \in BOOLEAN : save_state(w, ok)
    \/ \E w \in WorkerIds : sleep_tick(w)

SpecRelay == Init /\ [][NextRelay]_vars

\* The same relay constructed on a state file it finds.
InitFound ==
    /\ file = NoFile
    /\ buffer = LoadBuffer(NoFile)
    /\ metric_types = LoadMetricTypes("ok", MetricNames)
    /\ source_id = ServerId(SOURCE_NAME)
    /\ creates = [n \in MetricNames |-> 0]
    /\ pc = "idle"
    /\ op = None
    /\ metrics_data = NoMeasurement
    /\ clock = 0
    /\ metric_type_id = NoId
    /\ attempt_number = 0
    /\ save_return = None
    /\ ret = None
    /\ bulk_calls = 0
    /\ send_calls = 0
    /\ transient = 0
    /\ last_exc = ""
    /\ bulk_result = None
    /\ accepted = FALSE
    /\ entry_buffer = <<>>
    /\ before_mutation = <<>>
    /\ persisted = <<>>
    /\ save_result = None
    /\ returned = <<>>
    /\ aliased = FALSE
    /\ source_requests = 0
    /\ bulk_request = NoBulkRequest
    /\ resolution = NoResolution
    /\ delivered = {}
    /\ collection = NoCollection
    /\ aggregator = NoAggregator
    /\ command_handlers = InitialHandlers
    /\ running = FALSE
    /\ thread = NoThread
    /\ workers = [w \in WorkerIds |-> NoWorker]
    /\ state_file \in FoundStateFiles
    /\ last_command_id = LoadState(state_file, None)
    /\ sent_results = {}
    /\ received = {}
    /\ main_pc = "ready"

SpecFound == InitFound /\ [][NextRelay]_vars

\* The commands a server has issued to the client, in its order, and the
\* list it answers a poll with: those it has received no result for.
IssuedCommands ==
    << [id |-> "c1", command |-> "custom"], [id |-> "c2", command |-> "ping"] >>
Pending == SelectSeq(IssuedCommands, LAMBDA c : c.id \notin received)

\* The POST of a result of the command at the head of w's list can fail
\* the first time it is made for that command and not after.
FirstPost(w) ==
    \A r \in sent_results : r.id # Head(workers[w].queue).id

\* A step of the thread w beside that server.
DeliverStep(w) ==
    \/ loop_check(w)
    \/ poll_commands(w, "ok", Pending)
    \/ execute(w, "return")
    \/ \E out \in DiskOutcomes :
          /\ workers[w].pc = "send_result"
          /\ out = "refused" => FirstPost(w)
          /\ send_result(w, out)
    \/ set_last(w)
    \/ save_state(w, TRUE)
    \/ sleep_tick(w)

\* A relay that is started and keeps running beside a server that answers
\* every poll with the pending commands and, after at most one refused
\* POST per command, takes every result; its thread is scheduled.
NextDeliver ==
    \/ start
    \/ \E w \in WorkerIds : loop_check(w)
    \/ \E w \in WorkerIds : poll_commands(w, "ok", Pending)
    \/ \E w \in WorkerIds : execute(w, "return")
    \/ \E w \in WorkerIds, out \in DiskOutcomes :
          /\ workers[w].pc = "send_result"
          /\ out = "refused" => FirstPost(w)
          /\ send_result(w, out)
    \/ \E w \in WorkerIds : set_last(w)
    \/ \E w \in WorkerIds : save_state(w, TRUE)
    \/ \E w \in WorkerIds : sleep_tick(w)

SpecDeliver ==
    Init /\ [][NextDeliver]_vars /\ \A w \in WorkerIds : WF_vars(DeliverStep(w))

\* A relay that is started and stopped again and again while the server
\* hands out the ping command or nothing.
LifecycleResponses == { r \in PollResponses : \A i \in 1..Len(r) : r[i].command = "ping" }

\* A step of the thread w.
WorkerStep(w) ==
    \/ loop_check(w)
    \/ \E out \in DiskOutcomes, commands \in LifecycleResponses :
          poll_commands(w, out, commands)
    \/ execute(w, "return")
    \/ \E out \in DiskOutcomes : send_result(w, out)
    \/ set_last(w)
    \/ save_state(w, TRUE)
    \/ sleep_tick(w)

NextLifecycle ==
    \/ start
    \/ stop
    \/ join
    \/ \E w \in WorkerIds : loop_check(w)
    \/ \E w \in WorkerIds, out \in DiskOutcomes, commands \in LifecycleResponses :
          poll_commands(w, out, commands)
    \/ \E w \in WorkerIds : execute(w, "return")
    \/ \E w \in WorkerIds, out \in DiskOutcomes : send_result(w, out)
    \/ \E w \in WorkerIds : set_last(w)
    \/ \E w \in WorkerIds : save_state(w, TRUE)
    \/ \E w \in WorkerIds : sleep_tick(w)

SpecLifecycle == Init /\ [][NextLifecycle]_vars

\* The same relay with threads that are scheduled: a thread that has a step
\* to take takes it, its HTTP call and its handler returning.
SpecLifecycleLive ==
    Init /\ [][NextLifecycle]_vars /\ \A w \in WorkerIds : WF_vars(WorkerStep(w))

\* ------------------------------------------------- the legacy aggregator
\* What client.http_client.send_metrics comes to for its caller: it returns
\* True after a 2xx answer, and otherwise the RequestException of its last
\* attempt gets out of the retry decorator. It has no path that returns False.
LegacySendOutcomes == {"True", "raised"}

\* The elements of a list.
Elements(list) == { list[i] : i \in 1..Len(list) }

\* client.metrics_buffer.MetricsBuffer._save_buffer: the file takes the
\* buffer, or open() raises the IOError that is logged and the file stays.
LegacySave(st, writable) ==
    IF writable THEN [st EXCEPT !.file = st.buffer] ELSE st

\* MetricsBuffer.clear: the whole deque is emptied and saved.
LegacyClear(st, writable) ==
    LegacySave([st EXCEPT !.cleared = @ \cup Elements(st.buffer),
                          !.buffer = <<>>],
               writable)

\* MetricsBuffer.add: append to the deque of maxlen BUFFER_SIZE, and save.
LegacyAdd(st, metric, writable) ==
    LegacySave([st EXCEPT !.buffer = BufferAdd(@, metric)], writable)

\* The loop of collect_and_send over buffer.get_all(), a copy of the buffer
\* taken before the first send: each batch of the copy is sent in turn, a
\* True clears the buffer, an exception leaves the loop and the try block.
RECURSIVE FlushBuffered(_, _, _, _)
FlushBuffered(st, buffered_metrics, outcomes, writable) ==
    IF buffered_metrics = <<>>
      THEN st
      ELSE IF Head(outcomes) = "True"
             THEN FlushBuffered(
                      LegacyClear([st EXCEPT !.sent = @ \cup {Head(buffered_metrics)}],
                                  writable),
                      Tail(buffered_metrics), Tail(outcomes), writable)
             ELSE [st EXCEPT !.raised = TRUE]

\* MetricsAggregator.collect_and_send: outcomes[i] is what send_metrics comes
\* to for the i-th buffered batch, current what it comes to for the new
\* batch, writable whether the buffer file can be opened for writing.
aggregator_collect_and_send(outcomes, current, writable) ==
    /\ aggregator.clock < MaxBatches
    /\ LET metrics_batch == aggregator.clock + 1
           entry == [buffer |-> aggregator.buffer, file |-> aggregator.file,
                     sent |-> aggregator.sent, cleared |-> aggregator.cleared,
                     raised |-> FALSE]
           flushed == FlushBuffered(entry, aggregator.buffer, outcomes, writable)
           done == IF flushed.raised
                     THEN LegacyAdd(flushed, metrics_batch, writable)
                     ELSE IF current = "True"
                            THEN [flushed EXCEPT !.sent = @ \cup {metrics_batch}]
                            ELSE LegacyAdd(flushed, metrics_batch, writable)
       IN aggregator' = [buffer |-> done.buffer, file |-> done.file,
                         clock |-> metrics_batch,
                         sent |-> done.sent, cleared |-> done.cleared]
    /\ UNCHANGED <<client_vars, collection, relay_vars>>

\* A new process: MetricsAggregator.__init__ makes a MetricsBuffer, whose
\* _load_buffer extends the empty deque with the list in the file.
aggregator_init ==
    /\ aggregator' = [aggregator EXCEPT !.buffer = aggregator.file]
    /\ UNCHANGED <<client_vars, collection, relay_vars>>

NextAggregator ==
    \/ \E outcomes \in [1..BUFFER_SIZE -> LegacySendOutcomes],
          current \in LegacySendOutcomes, writable \in BOOLEAN :
          aggregator_collect_and_send(outcomes, current, writable)
    \/ aggregator_init

SpecAggregator == InitFound /\ [][NextAggregator]_vars

\* ------------------------------------------------------------------ claims
\* The measurement of the call in progress is a well-formed one.
NamedCall == op = "send_metrics" /\ TruthyStr(Get(metrics_data, "name", None))

\* The buffered dict r carries the value, the metadata (as key/str(value)
\* pairs, in order) and the time of measurement m taken at t.
Carries(r, m, t) ==
    LET md == Get(m, "metadata", <<>>)
        rmd == Get(r, "metadata", <<>>)
    IN /\ r.value = Get(m, "value", 0)
       /\ r.recorded_at = t
       /\ Len(rmd) = Len(md)
       /\ \A i \in 1..Len(md) :
             rmd[i].key = md[i][1] /\ rmd[i].value = md[i][2][2]

\* C1: when send_metrics returns for a measurement with a non-empty name,
\* the server answered 2xx to its single-item request or the buffer holds a
\* record with its value and metadata, whatever the server did during the
\* flush, the resolution and the send.
C1_NoLoss ==
    (pc = "return" /\ NamedCall) =>
        \/ accepted
        \/ \E i \in 1..Len(buffer) : Carries(buffer[i], metrics_data, clock)

\* C1 witness: a send that failed on a full buffer whose flush failed too.
C1_Witness ==
    /\ pc = "return" /\ NamedCall
    /\ ~accepted
    /\ bulk_result = "False"
    /\ Len(entry_buffer) = BUFFER_SIZE
    /\ Carries(buffer[Len(buffer)], metrics_data, clock)

\* C2: with 0 < len(B) < max_size at entry and a failed flush, the buffer
\* at return is B if the direct send returned True and B followed by the
\* measurement's record if not.
C2_FailedFlushKeepsBuffer ==
    (/\ pc = "return" /\ NamedCall
     /\ Len(entry_buffer) > 0 /\ Len(entry_buffer) < BUFFER_SIZE
     /\ bulk_result = "False") =>
        IF ret = "True"
          THEN buffer = entry_buffer
          ELSE /\ Len(buffer) = Len(entry_buffer) + 1
               /\ SubSeq(buffer, 1, Len(entry_buffer)) = entry_buffer
               /\ Carries(buffer[Len(buffer)], metrics_data, clock)

\* C2 witness: flush failed, direct send failed, the record follows B.
C2_Witness ==
    /\ pc = "return" /\ NamedCall
    /\ Len(entry_buffer) > 0 /\ Len(entry_buffer) < BUFFER_SIZE
    /\ bulk_result = "False"
    /\ ret = "False"
    /\ buffer = Append(entry_buffer, buffer[Len(buffer)])

\* C3: within a process the buffer changes in three ways only: an append, an
\* append that evicts the entry at index 0 of a full buffer, or the clearing
\* of the whole buffer by the step in which the bulk call reported success.
C3_EntriesLeaveTwoWays ==
    [][ \/ buffer' = buffer
        \/ /\ Len(buffer) < BUFFER_SIZE
           /\ Len(buffer') = Len(buffer) + 1
           /\ SubSeq(buffer', 1, Len(buffer)) = buffer
        \/ /\ Len(buffer) = BUFFER_SIZE
           /\ Len(buffer') = BUFFER_SIZE
           /\ \A i \in 1..(BUFFER_SIZE - 1) : buffer'[i] = buffer[i + 1]
        \/ /\ buffer' = <<>>
           /\ pc = "bulk"
           /\ bulk_result' = "True" ]_vars

\* C3 witness: a non-empty buffer was just cleared after a successful bulk.
C3_Witness ==
    /\ pc = "save_open"
    /\ bulk_result = "True"
    /\ before_mutation # <<>>
    /\ buffer = <<>>

\* C4: add() on a buffer of max_size entries drops the entry at index 0,
\* keeps the others in order and puts the new entry last; on a shorter
\* buffer it only appends.
C4_AddEvictsOldest ==
    (pc = "save_open" /\ save_return = "return") =>
        LET old == before_mutation
            n == Len(old)
        IN /\ Carries(buffer[Len(buffer)], metrics_data, clock)
           /\ IF n >= BUFFER_SIZE
                THEN /\ Len(buffer) = n
                     /\ \A i \in 1..(n - 1) : buffer[i] = old[i + 1]
                ELSE /\ Len(buffer) = n + 1
                     /\ \A i \in 1..n : buffer[i] = old[i]

\* C4 witness: add() has just run on a full buffer.
C4_Witness ==
    /\ pc = "save_open" /\ save_return = "return"
    /\ Len(before_mutation) = BUFFER_SIZE
    /\ buffer[1] = before_mutation[2]

C6_RetryBound ==
    /\ send_calls <= MAX_RETRIES
    /\ (/\ op = "send_metrics" /\ pc # "send"
        /\ send_calls > 0 /\ transient = send_calls) =>
           /\ send_calls = MAX_RETRIES
           /\ ret # "True"
           /\ Carries(buffer[Len(buffer)], metrics_data, clock)
           /\ (pc = "return" => ret = "False")

\* C6 witness: three transient failures, False returned, record buffered.
C6_Witness ==
    /\ pc = "return" /\ op = "send_metrics"
    /\ transient = MAX_RETRIES /\ send_calls = MAX_RETRIES
    /\ ret = "False"

\* C7: a transport call that raised anything but a connection error or a
\* timeout is the last one of its request: after k transient failures that
\* makes k + 1 calls, and the request is reported failed.
C7_NoRetryOnPermanent ==
    (/\ op = "send_metrics" /\ send_calls > 0
     /\ last_exc \notin {"", "ConnectionError", "Timeout"}) =>
        /\ pc # "send"
        /\ send_calls = transient + 1
        /\ ret # "True"
        /\ (pc = "return" => ret = "False")

\* C7 witness: a 4xx/5xx status on the first call, and one after two
\* transient failures.
C7_Witness ==
    /\ pc = "return" /\ op = "send_metrics"
    /\ last_exc = "HTTPError"
    /\ transient = 2 /\ send_calls = 3

\* C8: at most one metric-type create request per name in one process.
C8_AtMostOneCreate == \A n \in MetricNames : creates[n] <= 1

\* C9: after an add() or clear() whose write succeeded has returned, the
\* file loads to the entries in memory, in order.
C9_ReloadEqualsMemory ==
    (pc \notin {"save_open", "save_dump"} /\ save_result = "ok") =>
        LoadBuffer(file) = buffer

\* C9 witness: a full buffer of entries with metadata was saved.
C9_Witness ==
    /\ pc = "return" /\ save_result = "ok"
    /\ Len(buffer) = BUFFER_SIZE
    /\ "metadata" \in DOMAIN buffer[1]
    /\ LoadBuffer(file) = buffer

\* C10: a kill during add() or clear(), on a buffer the file held, starts
\* the next process with the contents before or after that mutation.
C10_CrashKeepsPersisted ==
    [][ (/\ pc \in {"save_open", "save_dump"}
         /\ pc' = "idle"
         /\ persisted = before_mutation) =>
            buffer' \in {before_mutation, buffer} ]_vars

\* The measurement of the call in progress has an empty name or none.
UnnamedCall ==
    op = "send_metrics" /\ Get(metrics_data, "name", None) \in {None, ""}

\* C11: send_metrics with an empty or missing name makes no single-item
\* request, adds no record for the measurement to the buffer (the buffer is
\* the one at entry, or that one flushed) and returns False.
C11_UnnamedRejected ==
    UnnamedCall =>
        /\ send_calls = 0
        /\ buffer \in {entry_buffer, <<>>}
        /\ \A i \in 1..Len(buffer) : buffer[i].recorded_at # clock
        /\ (pc = "return" => ret = "False")

\* C11 witness: a call with the name "" returns False over a buffer that
\* holds what it held.
C11_Witness ==
    /\ pc = "return" /\ UnnamedCall
    /\ Get(metrics_data, "name", None) = ""
    /\ ret = "False"
    /\ buffer # <<>> /\ buffer = entry_buffer

\* C12: a call with an empty or missing name is rejected before any other
\* step: until it returns no step of it makes a bulk, resolution or
\* single-item request or changes the buffer or the file.
C12_UnnamedTouchesNothing ==
    [][ (UnnamedCall /\ pc # "return") =>
            /\ bulk_calls' = bulk_calls
            /\ send_calls' = send_calls
            /\ creates' = creates
            /\ buffer' = buffer
            /\ file' = file ]_vars

\* C13: when the write of the buffer file fails during add(), add() returns
\* and the buffer in memory is the one add() made: the entries it had (less
\* the evicted one) followed by the new entry.
C13_FailedWriteKeepsEntry ==
    (/\ pc = "return" /\ NamedCall
     /\ send_calls > 0 /\ ret = "False"
     /\ save_result = "IOError") =>
        /\ Len(buffer) > 0
        /\ Carries(buffer[Len(buffer)], metrics_data, clock)
        /\ buffer = BufferAdd(before_mutation, buffer[Len(buffer)])

\* C13 witness: add() on a full buffer whose write failed: the file does not
\* hold the new entry, the buffer does.
C13_Witness ==
    /\ pc = "return" /\ NamedCall
    /\ send_calls > 0 /\ ret = "False"
    /\ save_result = "IOError"
    /\ Len(before_mutation) = BUFFER_SIZE
    /\ LoadBuffer(file) # buffer
    /\ Carries(buffer[Len(buffer)], metrics_data, clock)

\* The text is a JSON array whose items are all objects.
ArrayOfRecords(text) ==
    /\ JsonValid(text)
    /\ \A i \in 1..Len(text) : text[i][1] # "num"

\* C14: a client constructed on a missing file, or on a file that is not a
\* well-formed array of records, starts with an empty buffer.
C14_BadFileGivesEmptyBuffer ==
    (clock = 0 /\ ~(file.exists /\ ArrayOfRecords(file.text))) =>
        Len(buffer) = 0

\* C15: get_all() returns the entries oldest first and leaves the buffer as
\* it is; no later step of the client changes a list get_all() returned, and
\* no change the caller makes to that list changes the buffer.
C15_GetAllIndependent ==
    [][ /\ (op # "get_all" /\ op' = "get_all") =>
               (returned' = buffer /\ buffer' = buffer)
        /\ (pc # "idle" /\ op # "get_all") => returned' = returned
        /\ (pc = "idle" /\ pc' = "idle") => buffer' = buffer ]_vars

\* C16: the source id is resolved once in a process: after construction no
\* send_metrics or health_check call makes a request to /api/sources/, and
\* source_id keeps its value.
C16_SourceResolvedOnce ==
    [][ source_id' = source_id /\ source_requests' = 0 ]_vars

\* C16 witness: the last send_metrics of a client that stored a placeholder
\* at construction has been through resolution and delivery.
C16_Witness ==
    /\ pc = "return" /\ op = "send_metrics"
    /\ send_calls > 0
    /\ clock = MaxSends
    /\ source_id \in Uuid4Values
    /\ source_requests = 0

\* C17: the source id used after a failed resolution depends on the
\* configuration only, so the records buffered by successive processes of
\* one configuration that failed resolution carry one source id.
C17_PlaceholderDeterministic ==
    \A i, j \in 1..Len(buffer) :
        (/\ buffer[i].source_id # ServerId(SOURCE_NAME)
         /\ buffer[j].source_id # ServerId(SOURCE_NAME)) =>
            buffer[i].source_id = buffer[j].source_id

\* C18: health_check, whatever the probe comes to, leaves the buffer and the
\* buffer file as they are and makes no bulk or single-item request.
C18_HealthCheckFrame ==
    [][ (op = "health_check" \/ op' = "health_check") =>
            /\ buffer' = buffer
            /\ file' = file
            /\ bulk_calls' = bulk_calls
            /\ send_calls' = send_calls ]_vars

\* C18 witness: a health_check answered 200 on a client with a saved,
\* non-empty buffer.
C18_Witness ==
    /\ pc = "return" /\ op = "health_check"
    /\ ret = "True"
    /\ buffer # <<>>
    /\ LoadBuffer(file) = buffer

\* C19: send_metrics returns True or False to its caller, whatever the
\* measurement and whatever the flush, the writes of the buffer file, the
\* resolution and the delivery came to; no exception leaves it.
C19_NeverRaises ==
    (pc = "return" /\ op = "send_metrics") => ret \in {"True", "False"}

\* C19 witness: a call returns False after a flush that was refused with a
\* 4xx/5xx status, a body of the single-item answer that was not JSON
\* (a ValueError) and a write of the buffer file that failed.
C19_Witness ==
    /\ pc = "return" /\ op = "send_metrics"
    /\ bulk_result = "False" /\ bulk_calls = 1
    /\ last_exc = "ValueError"
    /\ save_result = "IOError"
    /\ ret = "False"

\* The call in progress could not resolve its metric type (the name is not in
\* metric_types, and the create does not end in an id) or runs on a source
\* id that is a placeholder.
ResolutionFailed ==
    /\ NamedCall
    /\ \/ metrics_data.name \notin DOMAIN metric_types
       \/ source_id \in Uuid4Values

\* C20: a send_metrics call whose resolution failed is not given up: it has
\* ids (the placeholders where resolution failed), it makes the single-item
\* request, and it returns True or leaves a record of the measurement, under
\* the ids it used or the derived ones, last in the buffer and returns False.
C20_ResolutionFailureKeepsMeasurement ==
    (pc = "return" /\ ResolutionFailed) =>
        /\ TruthyId(metric_type_id) /\ TruthyId(source_id)
        /\ send_calls > 0
        /\ \/ ret = "True"
           \/ /\ ret = "False"
              /\ Len(buffer) > 0
              /\ Carries(buffer[Len(buffer)], metrics_data, clock)
              /\ buffer[Len(buffer)].metric_type_id
                    \in {metric_type_id, Uuid5(metrics_data.name)}
              /\ buffer[Len(buffer)].source_id
                    \in {source_id, Uuid5(SOURCE_NAME)}

\* C20 witness: metric type and source both on placeholders, the delivery
\* refused, the record buffered under the placeholders.
C20_Witness ==
    /\ pc = "return" /\ NamedCall
    /\ metrics_data.name \notin DOMAIN metric_types
    /\ source_id \in Uuid4Values
    /\ ret = "False"
    /\ buffer[Len(buffer)].metric_type_id = Uuid5(metrics_data.name)
    /\ buffer[Len(buffer)].source_id = source_id

\* C21: every request of a flush posts the whole buffer; a flush makes at
\* most max_retries requests, another one only after a connection error or a
\* timeout, and max_retries of them when all raised those; it ends in True
\* or False, never in an exception; and a call that has finished its flush
\* makes no further bulk request.
C21_FlushWholeOnceRetried ==
    [][ /\ bulk_calls' <= MAX_RETRIES
        /\ (bulk_calls' > bulk_calls) =>
              /\ buffer # <<>>
              /\ bulk_request'.metrics = buffer
              /\ bulk_result = None
              /\ (bulk_calls > 0 =>
                    bulk_request.exc \in {"ConnectionError", "Timeout"})
        /\ (bulk_result = None /\ bulk_result' # None) =>
              /\ bulk_result' =
                    (IF bulk_request'.exc = "" THEN "True" ELSE "False")
              /\ (bulk_request'.exc \in {"ConnectionError", "Timeout"} =>
                    bulk_calls' = MAX_RETRIES)
        /\ ret' # "raise" ]_vars

\* C21 witness: a flush of a full buffer ended False at its second request,
\* which the server answered with a 4xx/5xx status.
C21_Witness ==
    /\ pc = "name"
    /\ bulk_result = "False"
    /\ bulk_calls = 2
    /\ bulk_request.exc = "HTTPError"
    /\ bulk_request.metrics = buffer
    /\ Len(buffer) = BUFFER_SIZE

\* C22: a resolution of a unit or of the source issues its create request
\* only after its list request succeeded and held no entry of the symbol or
\* name; when the list holds one, that entry's id is used and no create is
\* issued.
C22_CreateOnlyAfterCleanList ==
    resolution.of \in {"unit", "source"} =>
        /\ resolution.created =>
              (resolution.list = "" /\ resolution.entry = "none")
        /\ (resolution.list = "" /\ resolution.entry = "match") =>
              (~resolution.created /\ resolution.id = ServerId(resolution.name))

\* C29: a send_metrics call makes at most max_retries bulk requests, at
\* most max_retries single-item requests, at most one metric-type create and
\* no request for the source, and, each of its requests returning, it
\* returns.
C29_SendMetricsTerminates ==
    /\ [](/\ bulk_calls <= MAX_RETRIES
          /\ send_calls <= MAX_RETRIES
          /\ (\A n \in MetricNames : creates[n] <= clock)
          /\ source_requests = 0)
    /\ (op = "send_metrics") ~> (pc = "idle")

\* C29 witness: a call that went through a flush of max_retries requests,
\* a metric-type create and max_retries single-item requests is returning.
C29_Witness ==
    /\ pc = "return" /\ op = "send_metrics"
    /\ bulk_calls = MAX_RETRIES
    /\ send_calls = MAX_RETRIES
    /\ creates[metrics_data.name] = clock

\* C30: when send_metrics returns for a measurement with a non-empty name,
\* it returns True exactly when the last single-item request ended without
\* an exception, whatever the flush returned; on True the buffer is what
\* the flush left and holds no record of the measurement, on False it is
\* what the flush left with one record of the measurement added.
C30_ReturnMatchesDelivery ==
    (pc = "return" /\ NamedCall) =>
        LET flushed == IF bulk_result = "True" THEN <<>> ELSE entry_buffer
            mine == {i \in 1..Len(buffer) :
                        Carries(buffer[i], metrics_data, clock)}
        IN /\ (ret = "True") <=> (send_calls > 0 /\ last_exc = "")
           /\ IF ret = "True"
                THEN buffer = flushed /\ mine = {}
                ELSE /\ ret = "False"
                     /\ mine = {Len(buffer)}
                     /\ buffer = Append(IF Len(flushed) < BUFFER_SIZE
                                          THEN flushed ELSE Tail(flushed),
                                        buffer[Len(buffer)])

\* C30 witness: the flush succeeded, the single-item request did not, and
\* the call returns False with the record as the only entry.
C30_Witness ==
    /\ pc = "return" /\ NamedCall
    /\ bulk_result = "True"
    /\ send_calls > 0 /\ last_exc # ""
    /\ ret = "False"
    /\ Len(buffer) = 1
    /\ Carries(buffer[1], metrics_data, clock)

\* The result in hand is the error result of a command that has no handler
\* or whose handler raised.
ErrorResult(r) == r.how \in {"unknown", "raised"}

\* C23: a polled command with no registered handler, or whose handler
\* raises, gets a result of status error; that result is POSTed; the worker
\* then records the command and goes to the next command of the poll; and
\* a worker leaves poll_loop only at the while test, the relay not running.
C23_ErrorResultSentWorkerGoesOn ==
    [][ \A w \in WorkerIds :
          LET old == workers[w]
              new == workers'[w]
          IN /\ (old.pc = "execute" /\ new.result # old.result
                                    /\ ErrorResult(new.result)) =>
                    /\ new.pc = "send_result"
                    /\ new.result.status = "error"
                    /\ new.queue = old.queue
             /\ (old.pc = "send_result" /\ ErrorResult(old.result)
                                        /\ new # old) =>
                    /\ [id |-> Head(old.queue).id, status |-> "error"]
                          \in sent_results'
                    /\ new.pc = "set_last"
                    /\ new.queue = old.queue
             /\ (old.pc = "set_last" /\ new # old) =>
                    new.pc = "save_state" /\ new.queue = old.queue
             /\ (old.pc = "save_state" /\ new # old) =>
                    new.pc = "execute" /\ new.queue = Tail(old.queue)
             /\ (new.pc = "exited" /\ old.pc # "exited") =>
                    old.pc = "while" /\ ~running ]_vars

\* C23 witness: the first command of a poll of two had no handler, its
\* error result was POSTed, and the worker is sending the result of the
\* second.
C23_Witness ==
    \E w \in WorkerIds :
       /\ workers[w].pc = "send_result"
       /\ Len(workers[w].queue) = 1
       /\ Head(workers[w].queue).id = "c2"
       /\ workers[w].result.status = "success"
       /\ command_handlers["custom"] = None
       /\ last_command_id = "c1"
       /\ sent_results = {[id |-> "c1", status |-> "error"]}

\* C24: a worker goes from execute to the POST of the result, from there to
\* the assignment of last_command_id and from there to the write of the
\* state file; last_command_id and the state file change in those two steps
\* only, and the id either holds is the id of a result that was POSTed.
C24_ResultBeforeLastCommandId ==
    [][ /\ \A w \in WorkerIds :
             LET old == workers[w]
                 new == workers'[w]
             IN /\ (new.pc = "send_result" /\ new # old) => old.pc = "execute"
                /\ (new.pc = "set_last" /\ new # old) =>
                       /\ old.pc = "send_result"
                       /\ \E r \in sent_results' : r.id = Head(old.queue).id
                /\ (new.pc = "save_state" /\ new # old) =>
                       /\ old.pc = "set_last"
                       /\ last_command_id' = Head(old.queue).id
        /\ last_command_id' # last_command_id =>
               \E w \in WorkerIds : workers[w].pc = "set_last"
        /\ state_file' # state_file =>
               /\ \E w \in WorkerIds : workers[w].pc = "save_state"
               /\ state_file' = StateFileOf(last_command_id)
        /\ last_command_id' # None =>
               \E r \in sent_results' : r.id = last_command_id'
        /\ state_file'.exists =>
               \E r \in sent_results' : r.id = state_file'.last_command_id
      ]_vars

\* C24 witness: two commands were processed and the id of the second is in
\* memory and in the state file.
C24_Witness ==
    /\ last_command_id = "c2"
    /\ state_file = StateFileOf("c2")
    /\ \E r \in sent_results : r.id = "c1"
    /\ \E r \in sent_results : r.id = "c2"

\* C25: start() on a running relay and stop() on a stopped one change
\* nothing; start() on a stopped relay leaves it running with one live
\* worker thread; stop() on a running relay leaves it stopped.
C25_StartStopStateMachine ==
    [][ /\ (start /\ running) => UNCHANGED relay_vars
        /\ (stop /\ ~running) => UNCHANGED relay_vars
        /\ (start /\ ~running) =>
               running' /\ Cardinality(LiveWorkers') = 1
        /\ (stop /\ running) => ~running' ]_vars

\* C26: a worker that is alive when the relay is not running leaves
\* poll_loop.
C26_WorkerExitsAfterStop ==
    \A w \in WorkerIds :
        (~running /\ w \in LiveWorkers) ~> (workers[w].pc = "exited")

\* C27: a registration leaves every handler the table held bound to the
\* function it was bound to.
C27_RegistrationAdditive ==
    [][ \A c \in CommandNames :
           command_handlers[c] # None =>
              command_handlers'[c] = command_handlers[c] ]_vars

\* C28: the collect_and_send of a collector whose collect() raised lets no
\* exception out, returns {'error': message}, does not call send_metrics
\* and leaves the buffer, its file and the client as they were.
C28_CollectFailureContained ==
    [][ (collection' # collection /\ collection'.raised) =>
           /\ ~collection'.propagated
           /\ "error" \in DOMAIN collection'.result
           /\ ~collection'.sent
           /\ buffer' = buffer
           /\ file' = file
           /\ pc' = "idle"
           /\ clock' = clock ]_vars

\* C28 witness: collect() raised in a process whose buffer holds a record;
\* collect_and_send returned the error dict.
C28_Witness ==
    /\ collection.raised
    /\ collection.result = [error |-> "boom"]
    /\ pc = "idle"
    /\ Len(buffer) > 0

\* C31: a single-item delivery that ended on an attempt without exception
\* made one transport call more than it had connection errors and timeouts,
\* fewer than max_retries of those, and send_metrics returns True with the
\* buffer as the flush left it; a delivery that ended on a connection error
\* or a timeout had made max_retries calls.
C31_RetryThenSuccess ==
    (pc = "return" /\ NamedCall /\ send_calls > 0) =>
        /\ last_exc = "" =>
              /\ ret = "True"
              /\ send_calls = transient + 1
              /\ transient < MAX_RETRIES
              /\ buffer = IF bulk_result = "True" THEN <<>> ELSE entry_buffer
        /\ last_exc \in {"ConnectionError", "Timeout"} =>
              send_calls = MAX_RETRIES

\* C31 witness: two attempts failed on the connection, the third went
\* through, and the entries a failed flush left are all the buffer holds.
C31_Witness ==
    /\ pc = "return" /\ NamedCall
    /\ transient = MAX_RETRIES - 1
    /\ send_calls = MAX_RETRIES
    /\ last_exc = ""
    /\ ret = "True"
    /\ bulk_result = "False"
    /\ buffer = entry_buffer /\ Len(buffer) > 0

\* The records of the list are in the order of the calls that made them.
InSendOrder(list) ==
    \A i, j \in 1..Len(list) :
        i < j => list[i].recorded_at < list[j].recorded_at

\* C32: over calls, failed writes, kills and restarts, the buffer holds its
\* records in the order of the calls whose sends failed, and a bulk request
\* lists the buffer as it is, in that order.
C32_BufferKeepsSendOrder ==
    /\ InSendOrder(buffer)
    /\ InSendOrder(bulk_request.metrics)
    /\ (pc = "bulk" /\ bulk_calls > 0) => bulk_request.metrics = buffer

\* C32 witness: the flush listed the records of the first and second call,
\* failed, and the record of the third call evicted that of the first.
C32_Witness ==
    /\ pc = "return"
    /\ Len(bulk_request.metrics) = BUFFER_SIZE
    /\ bulk_request.metrics[1].recorded_at = 1
    /\ Len(buffer) = BUFFER_SIZE
    /\ buffer[1].recorded_at = 2
    /\ buffer[BUFFER_SIZE].recorded_at = clock

\* C33: no bulk request, in this process lifetime or a later one, lists an
\* entry that a bulk request answered 2xx had listed.
C33_DeliveredNeverResent ==
    [][ bulk_calls' = bulk_calls + 1 =>
           \A i \in 1..Len(bulk_request'.metrics) :
               bulk_request'.metrics[i] \notin delivered ]_vars

\* C34: at any time at most one thread of the relay is in poll_loop.
C34_AtMostOneWorker == Cardinality(LiveWorkers) <= 1

\* C35: the command at the head of a poll response is skipped, with no
\* result in hand, no POST and last_command_id as it was, exactly when
\* last_command_id is set and is its id, and is executed otherwise; and
\* the commands of a response leave it one at a time from the head, each
\* one skipped or executed.
C35_SkipOnlyLastCommand ==
    [][ \A w \in WorkerIds :
          LET old == workers[w]
              new == workers'[w]
          IN /\ (old.pc = "execute" /\ new # old /\ old.queue # <<>>) =>
                    IF last_command_id # None
                         /\ Head(old.queue).id = last_command_id
                      THEN /\ new.pc = "execute"
                           /\ new.queue = Tail(old.queue)
                           /\ new.result = old.result
                           /\ sent_results' = sent_results
                           /\ last_command_id' = last_command_id
                      ELSE /\ new.pc = "send_result"
                           /\ new.result # NoResult
                           /\ new.queue = old.queue
             /\ (old.queue # <<>> /\ new.queue # old.queue) =>
                    /\ new.queue = Tail(old.queue)
                    /\ old.pc = "execute" \/ old.result # NoResult ]_vars

\* C36: beside a server that stays reachable and lists a command until it
\* has its result, every command whose result the relay has POSTed once
\* has its result received by the server.
C36_ResultDelivered ==
    \A c \in {"c1", "c2"} :
        (\E r \in sent_results : r.id = c) ~> (c \in received)

\* C37: the legacy aggregator's flush removes a batch from the buffer only
\* if that batch was sent to the server with success: every batch clear()
\* has removed is one the server took.
C37_OnlyDeliveredCleared == aggregator.cleared \subseteq aggregator.sent

====
